---- MODULE Spec2Model ----
(***************************************************************************)
(* apple-sales-bot (src/index.js): one scheduled invocation fetches the   *)
(* daily Apple sales report for the date after the persisted cursor,      *)
(* compares it with the prior day and prior week, posts a summary to a    *)
(* Slack webhook and then advances the cursor kept in an S3 object.       *)
(*                                                                         *)
(* Dates are day numbers (days since 1970-01-01); the text forms moment   *)
(* writes and reads ('YYYY-MM-DD', 'YYYYMMDD', 'MMMM D, YYYY') are        *)
(* records of year, month and day computed by the calendar.  JS null and  *)
(* undefined are the strings they coerce to as object keys.               *)
(***************************************************************************)
EXTENDS Integers, Sequences, FiniteSets, TLC

\* ------------------------------------------------------------------ bounds

\* Invocations of the handler in one behaviour.
MaxRuns == 3
\* UTC midnights that may pass between invocations.
MaxTicks == 1
\* Data rows of a report given to parseSalesReport on its own.
MaxRows == 2
\* Apps of a day mapping given to buildSlackMessage on its own.
MaxApps == 25
\* The values given to formatPercentsField on its own reach from -MaxValue
\* to MaxValue.
MaxValue == 3

\* --------------------------------------------------------------- constants

INSTALL_TYPES == {"1", "1F", "1T", "F1", "1E", "1EP", "1EU"}
IAP_TYPES == {"IA1", "IA9", "IAY", "IAC", "FI1"}
MAX_ATTACHMENTS == 20
NO_REPORT_ERRORS_short == {210, 211}
NO_REPORT_ERRORS == {210, 211, 212}
ERR_NO_SALES == 213

Null == "null"
Undefined == "undefined"

\* ------------------------------------------------------------------- dates

IsLeap(y) == (y % 4 = 0 /\ y % 100 # 0) \/ y % 400 = 0

DaysInMonth(y, m) ==
  IF m = 2 THEN (IF IsLeap(y) THEN 29 ELSE 28)
  ELSE IF m \in {4, 6, 9, 11} THEN 30 ELSE 31

\* moment(date).format('YYYY-MM-DD'): the civil date of a day number.
FormatDate(z) ==
  LET zz  == z + 719468
      era == zz \div 146097
      doe == zz - era * 146097
      yoe == (doe - doe \div 1460 + doe \div 36524 - doe \div 146096) \div 365
      doy == doe - (365 * yoe + yoe \div 4 - yoe \div 100)
      mp  == (5 * doy + 2) \div 153
      dd  == doy - (153 * mp + 2) \div 5 + 1
      mm  == IF mp < 10 THEN mp + 3 ELSE mp - 9
      yy  == yoe + era * 400 + (IF mm <= 2 THEN 1 ELSE 0)
  IN  [y |-> yy, m |-> mm, d |-> dd]

\* moment(body, 'YYYY-MM-DD').isValid(): month and day of month in range.
DateIsValid(body) ==
  /\ body.m \in 1..12
  /\ body.d \in 1..DaysInMonth(body.y, body.m)

RECURSIVE DaysBeforeYear(_)
DaysBeforeYear(y) ==
  IF y <= 1970 THEN 0
  ELSE DaysBeforeYear(y - 1) + (IF IsLeap(y - 1) THEN 366 ELSE 365)

RECURSIVE DaysBeforeMonth(_, _)
DaysBeforeMonth(y, m) ==
  IF m <= 1 THEN 0 ELSE DaysBeforeMonth(y, m - 1) + DaysInMonth(y, m - 1)

\* moment(body, 'YYYY-MM-DD'): the day number of a valid civil date.
ParseDate(body) == DaysBeforeYear(body.y) + DaysBeforeMonth(body.y, body.m) + body.d - 1

MonthNames ==
  <<"January", "February", "March", "April", "May", "June", "July",
    "August", "September", "October", "November", "December">>

\* moment(date).format('MMMM D, YYYY')
FormatLongDate(z) ==
  LET c == FormatDate(z) IN <<MonthNames[c.m], c.d, c.y>>

\* tryReportSales: the date to report, from the cursor read (a sequence
\* holding the parsed date, or empty when the object does not exist).
TargetDate_clock(lastDate, utcNow) == utcNow - 2
TargetDate_skip(lastDate, utcNow) ==
  IF lastDate # <<>> THEN lastDate[1] + 2 ELSE utcNow - 2
TargetDate_same(lastDate, utcNow) ==
  IF lastDate # <<>> THEN lastDate[1] ELSE utcNow - 2
TargetDate(lastDate, utcNow) ==
  IF lastDate # <<>> THEN lastDate[1] + 1 ELSE utcNow - 2

\* getSalesForDate: the comparison dates.
PrevDate(date) == date - 1
PrevWeekDate(date) == date - 7

\* ------------------------------------------------------------ sequences

IndexOf(seq, x) ==
  IF \E i \in 1..Len(seq) : seq[i] = x
  THEN CHOOSE i \in 1..Len(seq) : seq[i] = x /\ \A j \in 1..(i - 1) : seq[j] # x
  ELSE 0

\* row[idx] in JS: undefined outside the row (idx 0 here is indexOf's -1).
At(row, i) == IF i \in 1..Len(row) THEN row[i] ELSE Undefined

SeqToSet(seq) == {seq[i] : i \in 1..Len(seq)}

Count(seq, x) == Cardinality({i \in 1..Len(seq) : seq[i] = x})

\* ------------------------------------------------------------ getDailySales

\* The report text is a sequence of lines, a line a sequence of cells (the
\* text between tabs); the empty line is <<"">>.  A line is kept when the
\* string is longer than one character: every cell of the model's texts is
\* empty or longer than one character, or stands in a line of several cells.
LineLength(line) ==
  IF Len(line) = 1 /\ line[1] = "" THEN 0 ELSE 2

\* cell.trim() || null
TrimCell(cell) == IF cell = "" THEN Null ELSE cell

\* .filter(row => row.length > 1)
RECURSIVE KeepLines(_)
KeepLines(text) ==
  IF text = <<>> THEN <<>>
  ELSE IF LineLength(Head(text)) > 1 THEN <<Head(text)>> \o KeepLines(Tail(text))
  ELSE KeepLines(Tail(text))

\* text.split('\n').filter(...).map(row => row.split('\t').map(...))
SplitReport(text) ==
  LET kept == KeepLines(text)
  IN  [i \in 1..Len(kept) |-> [j \in 1..Len(kept[i]) |-> TrimCell(kept[i][j])]]

\* The .catch of getDailySales: what an error of the reporter becomes.
\* code is Number(err.code); 0 stands for a code that is not a number.
ReportOfError(code) ==
  IF code \in NO_REPORT_ERRORS THEN [kind |-> "null", rows |-> <<>>]
  ELSE IF code = ERR_NO_SALES THEN [kind |-> "rows", rows |-> <<>>]
  ELSE [kind |-> "throw", rows |-> <<>>]

\* getDailySales's result for a reply of the reporter.
DailySalesResult(reply) ==
  IF reply.err THEN ReportOfError(reply.code)
  ELSE [kind |-> "rows", rows |-> SplitReport(reply.text)]

\* -------------------------------------------------------- parseSalesReport

\* Number(cell) for the numerals the reports use; anything else is NaN.
Numerals == [c \in {"0", "1", "2", "3", "4", "8"} |->
  CASE c = "0" -> 0 [] c = "1" -> 1 [] c = "2" -> 2 [] c = "3" -> 3
    [] c = "4" -> 4 [] c = "8" -> 8]

\* Number(cell) || 0
NumberOrZero(cell) == IF cell \in DOMAIN Numerals THEN Numerals[cell] ELSE 0

EmptyApps == [k \in {} |-> [title |-> "", country |-> "", icon |-> Null,
                            installs |-> 0, revenue |-> 0]]

\* One pass of the forEach body: the mapping after a data row.  Revenue is
\* units * localRevenue * (1 / fxRate); the model's rates are powers of two
\* that divide the proceeds, so the quotient is exact.
ParseRow_iapInstalls(row, idx, rates, apps) ==
  LET appID == At(row, idx.appID)
      fresh == [title |-> At(row, idx.title), country |-> At(row, idx.country),
                icon |-> Null, installs |-> 0, revenue |-> 0]
      app   == IF appID \in DOMAIN apps THEN apps[appID] ELSE fresh
      units == NumberOrZero(At(row, idx.units))
      currency == At(row, idx.currency)
      known == currency \in DOMAIN rates
      usd   == IF known
               THEN (units * NumberOrZero(At(row, idx.revenue))) \div rates[currency]
               ELSE 0
      after ==
        IF known /\ At(row, idx.type) \in INSTALL_TYPES \cup IAP_TYPES
        THEN [app EXCEPT !.installs = @ + units, !.revenue = @ + usd]
        ELSE app
  IN  [k \in DOMAIN apps \cup {appID} |-> IF k = appID THEN after ELSE apps[k]]
ParseRow_skipUnknown(row, idx, rates, apps) ==
  LET appID == At(row, idx.appID)
      fresh == [title |-> At(row, idx.title), country |-> At(row, idx.country),
                icon |-> Null, installs |-> 0, revenue |-> 0]
      app   == IF appID \in DOMAIN apps THEN apps[appID] ELSE fresh
      units == NumberOrZero(At(row, idx.units))
      currency == At(row, idx.currency)
      usd   == (units * NumberOrZero(At(row, idx.revenue))) \div rates[currency]
      after ==
        IF At(row, idx.type) \in INSTALL_TYPES
        THEN [app EXCEPT !.installs = @ + units, !.revenue = @ + usd]
        ELSE IF At(row, idx.type) \in IAP_TYPES
        THEN [app EXCEPT !.revenue = @ + usd]
        ELSE app
  IN  IF currency \notin DOMAIN rates THEN apps
      ELSE [k \in DOMAIN apps \cup {appID} |-> IF k = appID THEN after ELSE apps[k]]
ParseRow(row, idx, rates, apps) ==
  LET appID == At(row, idx.appID)
      fresh == [title |-> At(row, idx.title), country |-> At(row, idx.country),
                icon |-> Null, installs |-> 0, revenue |-> 0]
      app   == IF appID \in DOMAIN apps THEN apps[appID] ELSE fresh
      type  == At(row, idx.type)
      units == NumberOrZero(At(row, idx.units))
      localRevenue == NumberOrZero(At(row, idx.revenue))
      currency == At(row, idx.currency)
      known == currency \in DOMAIN rates
      usd   == IF known THEN (units * localRevenue) \div rates[currency] ELSE 0
      after ==
        IF known /\ type \in INSTALL_TYPES
        THEN [app EXCEPT !.installs = @ + units, !.revenue = @ + usd]
        ELSE IF known /\ type \in IAP_TYPES
        THEN [app EXCEPT !.revenue = @ + usd]
        ELSE app
  IN  [k \in DOMAIN apps \cup {appID} |-> IF k = appID THEN after ELSE apps[k]]

RECURSIVE ParseRows(_, _, _, _)
ParseRows(rows, idx, rates, apps) ==
  IF rows = <<>> THEN apps
  ELSE ParseRows(Tail(rows), idx, rates, ParseRow(Head(rows), idx, rates, apps))

\* parseSalesReport(report, rates) for a report that is an array of rows.
parseSalesReport(report, rates) ==
  IF Len(report) < 2 THEN EmptyApps
  ELSE
    LET header == report[1]
        idx == [appID    |-> IndexOf(header, "Apple Identifier"),
                country  |-> IndexOf(header, "Country Code"),
                currency |-> IndexOf(header, "Currency of Proceeds"),
                title    |-> IndexOf(header, "Title"),
                units    |-> IndexOf(header, "Units"),
                revenue  |-> IndexOf(header, "Developer Proceeds"),
                type     |-> IndexOf(header, "Product Type Identifier")]
    IN  ParseRows(Tail(report), idx, rates, EmptyApps)

\* parseSalesReport(null, rates) reads null.length: a TypeError.
ParseThrows(result) == result.kind = "null"

\* --------------------------------------------------------- getExchangeRates

\* The request callback of getExchangeRates: reject on err, on a missing
\* body and on a body without rates.
RatesRejected(reply) == reply.err \/ ~reply.hasBody \/ ~reply.hasRates

\* body.rates.USD = 1
RatesOf(reply) ==
  [c \in DOMAIN reply.rates \cup {"USD"} |->
    IF c = "USD" THEN 1 ELSE reply.rates[c]]

\* getSalesForDate: the table the parses of the two comparison reports
\* are given, from the one the current day was parsed with.
ComparisonRates_default(rates) == [c \in {"USD"} |-> 1]
ComparisonRates(rates) == rates

\* -------------------------------------------------------------- getAppInfo

\* The request callback of getAppInfo: reject on err and on a body without
\* results[0].trackName and results[0].artworkUrl60.
AppInfoRejected_noArtwork(reply) ==
  \/ reply.err
  \/ ~reply.hasBody
  \/ reply.results = <<>>
  \/ reply.results[1].trackName = ""
AppInfoRejected(reply) ==
  \/ reply.err
  \/ ~reply.hasBody
  \/ reply.results = <<>>
  \/ reply.results[1].trackName = ""
  \/ reply.results[1].artworkUrl60 = ""

\* ----------------------------------------------------- checkSalesReportStatus

\* A status reply: present (not null/undefined), with or without Status,
\* Status.Message, and Message's elements.
StatusUnrecognized_noLength(status) ==
  \/ ~status.present
  \/ ~status.hasStatus
  \/ ~status.hasMessage
StatusUnrecognized(status) ==
  \/ ~status.present
  \/ ~status.hasStatus
  \/ ~status.hasMessage
  \/ Len(status.message) = 0

\* ------------------------------------------------------------- formatting

Abs(x) == IF x < 0 THEN -x ELSE x

\* The digits of a non-negative integer in groups of three, as the regular
\* expression /\B(?=(\d{3})+(?!\d))/g separates them with commas.
RECURSIVE Groups(_)
Groups(n) == IF n < 1000 THEN <<n>> ELSE Groups(n \div 1000) \o <<n % 1000>>

\* formatNumber(value), for an integer value
formatNumber(value) == [minus |-> value < 0, groups |-> Groups(Abs(value))]

\* formatCurrency(value), for an integer value: no decimals from 100 up,
\* two below.
formatCurrency(value) ==
  [minus |-> value < 0, groups |-> Groups(Abs(value)),
   decimals |-> IF Abs(value) >= 100 THEN 0 ELSE 2]

\* Number.prototype.toFixed rounds to the nearest, a tie away from zero.
RoundDiv(num, den) == (2 * Abs(num) + den) \div (2 * den)

\* formatPercent(value) for the value num / den (den > 0): the sign prefix
\* and (value * 100).toFixed(1), held in tenths of a percent.
formatPercent(num, den) ==
  LET tenths == RoundDiv(num * 1000, den)
  IN  [plus |-> num >= 0, minus |-> num < 0,
       groups |-> Groups(tenths \div 10), tenth |-> tenths % 10]

\* One half of formatPercentsField: a zero baseline counts as +100%.
PercentChange_zero(value, base) ==
  IF base # 0 THEN formatPercent(value - base, Abs(base)) ELSE formatPercent(0, 1)
PercentChange(value, base) ==
  IF base # 0 THEN formatPercent(value - base, Abs(base)) ELSE formatPercent(1, 1)

formatPercentsField(dayValue, prevDayValue, prevWeekValue) ==
  [day |-> PercentChange(dayValue, prevDayValue),
   week |-> PercentChange(dayValue, prevWeekValue)]

createFields(installs, revenue, prevDayInstalls, prevDayRevenue, prevWeekInstalls, prevWeekRevenue) ==
  <<[title |-> "Downloads", number |-> <<formatNumber(installs)>>,
     currency |-> <<>>, percents |-> <<>>]>>
  \o (IF revenue # 0
      THEN <<[title |-> "Revenue", number |-> <<>>,
              currency |-> <<formatCurrency(revenue)>>, percents |-> <<>>]>>
      ELSE <<>>)
  \o <<[title |-> "", number |-> <<>>, currency |-> <<>>,
        percents |-> <<formatPercentsField(installs, prevDayInstalls,
                                           prevWeekInstalls)>>]>>
  \o (IF revenue # 0
      THEN <<[title |-> "", number |-> <<>>, currency |-> <<>>,
              percents |-> <<formatPercentsField(revenue, prevDayRevenue,
                                                 prevWeekRevenue)>>]>>
      ELSE <<>>)

\* --------------------------------------------------------- buildSlackMessage

\* The numeric value of the integer-like keys (Apple identifiers).
AppNumbers ==
  [k \in {ToString(1000 + i) : i \in 1..(MaxApps + 1)} |->
     CHOOSE n \in 1001..(1001 + MaxApps) : ToString(n) = k]

\* Object.keys(apps): integer-like keys in ascending order, then the one
\* other key a parse can produce ("null" or "undefined").
RECURSIVE KeysAscending(_)
KeysAscending(ks) ==
  IF ks = {} THEN <<>>
  ELSE LET k == CHOOSE x \in ks : \A o \in ks : AppNumbers[x] <= AppNumbers[o]
       IN  <<k>> \o KeysAscending(ks \ {k})

RECURSIVE SetToSeq(_)
SetToSeq(S) ==
  IF S = {} THEN <<>> ELSE LET x == CHOOSE x \in S : TRUE IN <<x>> \o SetToSeq(S \ {x})

ObjectKeys(apps) ==
  KeysAscending(DOMAIN apps \cap DOMAIN AppNumbers)
  \o SetToSeq(DOMAIN apps \ DOMAIN AppNumbers)

\* a.localeCompare(b) < 0 on the titles of the model's reports (every data
\* row of theirs has a title: localeCompare is never called on null).
TitleOrder ==
  <<"Alpha", "Bravo", "Charlie", "Delta", "Echo", "Foxtrot", "Golf", "Hotel",
    "India", "Juliett", "Kilo", "Lima", "Mike", "November", "Oscar", "Papa",
    "Quebec", "Romeo", "Sierra", "Tango", "Uniform", "Victor", "Whiskey",
    "Xray", "Yankee", "Zulu">>
TitleBefore(a, b) == IndexOf(TitleOrder, a) < IndexOf(TitleOrder, b)

\* Array.prototype.sort with the title comparator: a stable insertion.
RECURSIVE InsertByTitle(_, _, _)
InsertByTitle(sorted, k, apps) ==
  IF sorted = <<>> THEN <<k>>
  ELSE IF TitleBefore(apps[k].title, apps[Head(sorted)].title)
  THEN <<k>> \o sorted
  ELSE <<Head(sorted)>> \o InsertByTitle(Tail(sorted), k, apps)

SortByTitle_unsorted(keys, apps) == keys

RECURSIVE SortByTitle(_, _)
SortByTitle(keys, apps) ==
  IF keys = <<>> THEN <<>>
  ELSE InsertByTitle(SortByTitle(SubSeq(keys, 1, Len(keys) - 1), apps),
                     keys[Len(keys)], apps)

NoRecord == [installs |-> 0, revenue |-> 0]

\* sales.prevDay[appID] || { installs: 0, revenue: 0 }
RecordOr(apps, appID) ==
  IF appID \in DOMAIN apps
  THEN [installs |-> apps[appID].installs, revenue |-> apps[appID].revenue]
  ELSE NoRecord

\* revenue ? revenue > prevRevenue : installs > prevInstalls
IsGood_installs(installs, revenue, prevInstalls, prevRevenue) ==
  installs > prevInstalls
IsGood(installs, revenue, prevInstalls, prevRevenue) ==
  IF revenue # 0 THEN revenue > prevRevenue ELSE installs > prevInstalls

RECURSIVE SumOver_capped(_, _, _)
SumOver_capped(keys, apps, field) ==
  IF keys = <<>> THEN 0
  ELSE IF Len(keys) > MAX_ATTACHMENTS
  THEN SumOver_capped(SubSeq(keys, 1, MAX_ATTACHMENTS), apps, field)
  ELSE RecordOr(apps, Head(keys))[field] + SumOver_capped(Tail(keys), apps, field)

RECURSIVE SumOver(_, _, _)
SumOver(keys, apps, field) ==
  IF keys = <<>> THEN 0
  ELSE RecordOr(apps, Head(keys))[field] + SumOver(Tail(keys), apps, field)

AppAttachment(appID, day, prevDay, prevWeek) ==
  LET app == day[appID]
      prevDayApp == RecordOr(prevDay, appID)
      prevWeekApp == RecordOr(prevWeek, appID)
  IN  [title |-> "", pretext |-> <<>>,
       color |-> IF IsGood(app.installs, app.revenue,
                           prevDayApp.installs, prevDayApp.revenue)
                 THEN "good" ELSE "danger",
       author_name |-> app.title, author_icon |-> app.icon,
       fields |-> createFields(app.installs, app.revenue,
                               prevDayApp.installs, prevDayApp.revenue,
                               prevWeekApp.installs, prevWeekApp.revenue)]

TotalsAttachment(appIDs, day, prevDay, prevWeek, date) ==
  LET ti == [d |-> SumOver(appIDs, day, "installs"),
             p |-> SumOver(appIDs, prevDay, "installs"),
             w |-> SumOver(appIDs, prevWeek, "installs")]
      tr == [d |-> SumOver(appIDs, day, "revenue"),
             p |-> SumOver(appIDs, prevDay, "revenue"),
             w |-> SumOver(appIDs, prevWeek, "revenue")]
  IN  [title |-> "Totals",
       pretext |-> <<"Daily Analytics for ", FormatLongDate(date)>>,
       color |-> IF IsGood(ti.d, tr.d, ti.p, tr.p) THEN "good" ELSE "danger",
       author_name |-> "", author_icon |-> Null,
       fields |-> createFields(ti.d, tr.d, ti.p, tr.p, ti.w, tr.w)]

\* The message for a snapshot whose day mapping has keys.
SalesMessage(sales, date) ==
  LET day == sales.day[1]
      prevDay == sales.prevDay[1]
      prevWeek == sales.prevWeek[1]
      appIDs == SortByTitle(ObjectKeys(day), day)
      all == [i \in 1..Len(appIDs) |->
                AppAttachment(appIDs[i], day, prevDay, prevWeek)]
      capped == IF Len(all) > MAX_ATTACHMENTS
                THEN SubSeq(all, 1, MAX_ATTACHMENTS) ELSE all
  IN  [text |-> <<>>,
       attachments |->
         <<TotalsAttachment(appIDs, day, prevDay, prevWeek, date)>> \o capped]

NoSalesMessage(date) ==
  [text |-> <<"No app sales on ", FormatLongDate(date)>>, attachments |-> <<>>]

\* buildSlackMessage without its first test: the sections are built even
\* for a day mapping without keys.
buildSlackMessage_sections(sales, date) ==
  SalesMessage([sales EXCEPT !.prevDay = <<EmptyApps>>,
                             !.prevWeek = <<EmptyApps>>], date)

buildSlackMessage(sales, date) ==
  IF DOMAIN sales.day[1] = {} THEN NoSalesMessage(date)
  ELSE SalesMessage(sales, date)

\* ------------------------------------------------------------------ inputs

\* The environment of an invocation: every variable set, the S3 URL not an
\* s3: URL, or one variable unset ("").
AllSet ==
  [appleUserID |-> "user", appleAccessToken |-> "token", appleVendor |-> "vendor",
   openFXRatesAppID |-> "fx", s3PersistUrl |-> "s3://salesbot/lastrun.txt",
   slackWebhook |-> "https://hooks.slack.com/services/T"]

OptionNames ==
  <<"appleUserID", "appleAccessToken", "appleVendor", "openFXRatesAppID",
    "s3PersistUrl", "slackWebhook">>

Environments ==
  {AllSet, [AllSet EXCEPT !.s3PersistUrl = "http://salesbot/lastrun.txt"]}
  \cup {[AllSet EXCEPT ![OptionNames[i]] = ""] : i \in 1..Len(OptionNames)}

\* require('url').parse(s3Url).protocol
Protocol(url) == IF url = "s3://salesbot/lastrun.txt" THEN "s3:" ELSE "http:"

\* The first unset variable the handler reports, 0 when all are set.
FirstUnset(opts) ==
  IF \E i \in 1..Len(OptionNames) : opts[OptionNames[i]] = ""
  THEN CHOOSE i \in 1..Len(OptionNames) :
         /\ opts[OptionNames[i]] = ""
         /\ \A j \in 1..(i - 1) : opts[OptionNames[j]] # ""
  ELSE 0

\* Replies of reporter.Sales.getStatus(): a rejection, or a value.
StatusReplies ==
  {[err |-> TRUE,  present |-> FALSE, hasStatus |-> FALSE, hasMessage |-> FALSE, message |-> <<>>],
   [err |-> FALSE, present |-> FALSE, hasStatus |-> FALSE, hasMessage |-> FALSE, message |-> <<>>],
   [err |-> FALSE, present |-> TRUE,  hasStatus |-> FALSE, hasMessage |-> FALSE, message |-> <<>>],
   [err |-> FALSE, present |-> TRUE,  hasStatus |-> TRUE,  hasMessage |-> FALSE, message |-> <<>>],
   [err |-> FALSE, present |-> TRUE,  hasStatus |-> TRUE,  hasMessage |-> TRUE,  message |-> <<>>],
   [err |-> FALSE, present |-> TRUE,  hasStatus |-> TRUE,  hasMessage |-> TRUE,
    message |-> <<"Sales is up and running.">>]}

Header ==
  <<"Provider", "Title", "Units", "Developer Proceeds", "Apple Identifier",
    "Currency of Proceeds", "Country Code", "Product Type Identifier">>

RowAlphaFree == <<"APPLE", "Alpha", "3", "0", "1001", "USD", "US", "1F">>
RowAlphaIAP  == <<"APPLE", "Alpha", "2", "4", "1001", "EUR", "DE", "IA1">>
RowBravoPaid == <<"APPLE", "Bravo", "1", "8", "1002", "EUR", "FR", "1">>
RowBravoXXX  == <<"APPLE", "Bravo", "4", "8", "1002", "XXX", "FR", "1">>
RowBravoMore == <<"APPLE", "Bravo", "2", "8", "1002", "USD", "US", "1">>

\* Report texts: the empty text, a header alone, one app, two apps.
TextEmpty  == <<<<"">>>>
TextHeader == <<Header, <<"">>>>
TextOne    == <<Header, RowAlphaFree, <<"">>>>
TextTwo    == <<Header, RowBravoPaid, RowAlphaFree, RowAlphaIAP, RowBravoXXX, <<"">>>>
TextMore   == <<Header, RowBravoMore, RowAlphaIAP, <<"">>>>

\* Replies of reporter.Sales.getReport(): an error with its code (0: a code
\* that is no number), or the text.
ReportError(code) == [err |-> TRUE, code |-> code, text |-> <<>>]
ReportText(text) == [err |-> FALSE, code |-> 0, text |-> text]

ReportErrors == {ReportError(c) : c \in {210, 211, 212, 213, 0}}

DayReplies ==
  ReportErrors \cup {ReportText(t) : t \in {TextEmpty, TextHeader, TextOne, TextTwo}}

PrevReplies ==
  ReportErrors \cup {ReportText(t) : t \in {TextHeader, TextOne, TextMore}}

\* Replies of the exchange-rate request.
NoRates == [c \in {} |-> 0]
RatesReplies ==
  {[err |-> TRUE,  hasBody |-> FALSE, hasRates |-> FALSE, rates |-> NoRates],
   [err |-> FALSE, hasBody |-> FALSE, hasRates |-> FALSE, rates |-> NoRates],
   [err |-> FALSE, hasBody |-> TRUE,  hasRates |-> FALSE, rates |-> NoRates],
   [err |-> FALSE, hasBody |-> TRUE,  hasRates |-> TRUE,
    rates |-> [c \in {"EUR"} |-> 2]],
   [err |-> FALSE, hasBody |-> TRUE,  hasRates |-> TRUE,
    rates |-> [c \in {"EUR", "USD"} |-> 4]]}

\* Replies of the iTunes lookup request.
AppInfoReplies ==
  {[err |-> TRUE,  hasBody |-> FALSE, results |-> <<>>],
   [err |-> FALSE, hasBody |-> FALSE, results |-> <<>>],
   [err |-> FALSE, hasBody |-> TRUE,  results |-> <<>>],
   [err |-> FALSE, hasBody |-> TRUE,
    results |-> <<[trackName |-> "App", artworkUrl60 |-> ""]>>],
   [err |-> FALSE, hasBody |-> TRUE,
    results |-> <<[trackName |-> "App", artworkUrl60 |-> "http://is1.mzstatic.com/60.png"]>>]}

\* The UTC date of the first invocation, and a cursor body that is no date.
Today0 == ParseDate([y |-> 2018, m |-> 1, d |-> 1])
UnparsableBody == [y |-> 2017, m |-> 13, d |-> 40]

\* ------------------------------------------------------------------- state

VARIABLES
  utcNow,    \* the current UTC date
  s3Object,  \* the cursor object: <<>> (no such key) or <<body>>
  run,       \* the invocation: its position, its locals, its callback
  log,       \* what the invocation has asked of its collaborators
  last,      \* the invocation before this one, if it failed with a date chosen,
             \* and the latest date an invocation ended with 'Success' for
  runs,      \* invocations started
  ticks,     \* midnights passed
  calc       \* one call of a function on its own: its arguments and its result

vars == <<utcNow, s3Object, run, log, last, runs, ticks, calc>>

NoRun ==
  [pc |-> "idle", opts |-> AllSet, date |-> <<>>, report |-> <<>>, rates |-> <<>>,
   sales |-> [day |-> <<>>, prevDay |-> <<>>, prevWeek |-> <<>>],
   pending |-> {}, message |-> <<>>, chain |-> <<>>,
   failed |-> FALSE, error |-> "", status |-> ""]

NoLog ==
  [trace |-> <<>>, fetched |-> <<>>, lookups |-> <<>>, lookupReplies |-> <<>>,
   slack |-> <<>>, puts |-> <<>>, statusReply |-> <<>>,
   dayReply |-> <<>>, prevDayReply |-> <<>>, prevWeekReply |-> <<>>,
   ratesDay |-> <<>>, ratesPrevDay |-> <<>>, ratesPrevWeek |-> <<>>,
   cursorAtStart |-> <<>>, utcAtRead |-> <<>>]

NoLast ==
  [failed |-> FALSE, date |-> <<>>, hadCursor |-> FALSE, utcAtRead |-> <<>>,
   delivered |-> FALSE, succeeded |-> <<>>]

\* No function is being called on its own.
NoCalc == [fn |-> "", args |-> <<>>, result |-> <<>>]

Ended(r) == r.pc \in {"done", "failed"}

Init ==
  /\ utcNow = Today0
  /\ s3Object \in {<<>>, <<FormatDate(Today0 - 2)>>, <<UnparsableBody>>}
  /\ run = NoRun
  /\ log = NoLog
  /\ last = NoLast
  /\ runs = 0
  /\ ticks = 0
  /\ calc = NoCalc

\* ----------------------------------------------------------- the promise chain

\* A rejection or a throw anywhere in the chain reaches the handler's
\* .catch(err => callback(err)).
Fail(st, where) ==
  [st EXCEPT !.run.pc = "failed", !.run.failed = TRUE, !.run.error = where]

\* .then(status => callback(null, status))
Succeed(st, status) ==
  [st EXCEPT !.run.pc = "done", !.run.status = status]

\* getDailySales(reporter, vendor, date): the request is made.
FetchReport(st, pc, date) ==
  [st EXCEPT !.run.pc = pc,
             !.log.trace = Append(@, "getReport"),
             !.log.fetched = Append(@, FormatDate(date))]

\* The steps tryReportSales chains after buildSlackMessage.
DeliverChain_cursorFirst == <<"setLastDate", "postToSlack">>
DeliverChain == <<"postToSlack", "setLastDate">>

\* The next step of the chain is started; after the last one the chain
\* resolves to 'Success'.
Continue(st) ==
  IF st.run.chain = <<>> THEN Succeed(st, "Success")
  ELSE
    LET step == Head(st.run.chain)
        rest == [st EXCEPT !.run.chain = Tail(@)]
    IN  IF step = "postToSlack"
        THEN [rest EXCEPT !.run.pc = "post", !.log.trace = Append(@, "post")]
        ELSE IF Protocol(st.run.opts.s3PersistUrl) # "s3:"
        THEN Fail(rest, "setLastDate")
        ELSE [rest EXCEPT !.run.pc = "putObject",
                          !.log.trace = Append(@, "putObject"),
                          !.log.puts = Append(@, FormatDate(st.run.date[1]))]

\* Promise.all(tasks) has resolved: the message is built and the rest of
\* the chain begins.
Deliver(st) ==
  Continue([st EXCEPT !.run.message = <<buildSlackMessage(st.run.sales, st.run.date[1])>>,
                      !.run.chain = DeliverChain])

\* getAllAppInfo(sales): one lookup for each key of sales.day, all started
\* at once; without keys Promise.all([]) resolves at once.
getAllAppInfo(st) ==
  LET keys == ObjectKeys(st.run.sales.day[1])
  IN  IF keys = <<>> THEN Deliver(st)
      ELSE [st EXCEPT !.run.pc = "getAppInfo",
                      !.run.pending = SeqToSet(keys),
                      !.log.lookups = keys,
                      !.log.trace = @ \o [i \in 1..Len(keys) |-> "lookup"]]

Here == [run |-> run, log |-> log]

Becomes(st) == run' = st.run /\ log' = st.log

\* getSalesForDate: if (!Object.keys(day).length) return { day }.
DayIsEmpty_never(day) == FALSE
DayIsEmpty(day) == DOMAIN day = {}

\* postToSlack and setLastDate: the request callbacks reject on err.
PostRejected_never(err) == FALSE
PostRejected(err) == err
PutRejected(err) == err

\* ----------------------------------------------------------------- actions

\* exports.handler, once the invocation before it has called back: the
\* environment is read and checked, then tryReportSales starts with
\* checkSalesReportStatus.  Lookups a failed invocation left in flight are
\* gone with it (the command line exits on the error).
Handler(opts) ==
  /\ run.pc = "idle" \/ Ended(run)
  /\ runs < MaxRuns
  /\ runs' = runs + 1
  /\ LET later == last.succeeded = <<>> \/ run.date[1] > last.succeeded[1]
         dates == [NoLast EXCEPT
                     !.succeeded = IF run.status = "Success" /\ later
                                   THEN run.date ELSE last.succeeded]
     IN  last' = IF run.failed /\ run.date # <<>>
                 THEN [dates EXCEPT !.failed = TRUE, !.date = run.date,
                                    !.hadCursor = log.cursorAtStart # <<>>,
                                    !.utcAtRead = log.utcAtRead,
                                    !.delivered = log.slack # <<>>]
                 ELSE dates
  /\ LET st == [run |-> [NoRun EXCEPT !.opts = opts],
                log |-> [NoLog EXCEPT !.cursorAtStart = s3Object]]
     IN  IF FirstUnset(opts) # 0
         THEN Becomes(Fail(st, OptionNames[FirstUnset(opts)]))
         ELSE Becomes([st EXCEPT !.run.pc = "getStatus",
                                 !.log.trace = <<"getStatus">>])
  /\ UNCHANGED <<utcNow, s3Object, ticks, calc>>

\* checkSalesReportStatus's .then, and getLastDate up to s3.getObject.
StatusReply(reply) ==
  /\ run.pc = "getStatus"
  /\ LET st == [Here EXCEPT !.log.statusReply = <<reply>>]
     IN  IF reply.err THEN Becomes(Fail(st, "getStatus"))
         ELSE IF StatusUnrecognized(reply)
         THEN Becomes(Fail(st, "checkSalesReportStatus"))
         ELSE IF Protocol(run.opts.s3PersistUrl) # "s3:"
         THEN Becomes(Fail(st, "getLastDate"))
         ELSE Becomes([st EXCEPT !.run.pc = "getObject",
                                 !.log.trace = Append(@, "getObject")])
  /\ UNCHANGED <<utcNow, s3Object, last, runs, ticks, calc>>

\* The s3.getObject callback (err: an error other than NoSuchKey), the
\* choice of the date, and getSalesForDate up to the first getReport.
GetObjectReply(err) ==
  /\ run.pc = "getObject"
  /\ IF err THEN Becomes(Fail(Here, "getLastDate"))
     ELSE IF s3Object # <<>> /\ ~DateIsValid(s3Object[1])
     THEN Becomes(Fail(Here, "getLastDate"))
     ELSE
       LET lastDate == IF s3Object = <<>> THEN <<>> ELSE <<ParseDate(s3Object[1])>>
           date == TargetDate(lastDate, utcNow)
       IN  Becomes(FetchReport([Here EXCEPT !.run.date = <<date>>,
                                             !.log.utcAtRead = <<utcNow>>],
                               "getReportDay", date))
  /\ UNCHANGED <<utcNow, s3Object, last, runs, ticks, calc>>

\* getSalesForDate: the current day's report arrives.
DayReport(reply) ==
  /\ run.pc = "getReportDay"
  /\ LET res == DailySalesResult(reply)
         st == [Here EXCEPT !.log.dayReply = <<reply>>]
     IN  IF res.kind = "throw" THEN Becomes(Fail(st, "getDailySales"))
         ELSE IF res.kind = "null" THEN Becomes(Succeed(st, "No new sales report"))
         ELSE Becomes([st EXCEPT !.run.report = <<res.rows>>,
                                 !.run.pc = "getRates",
                                 !.log.trace = Append(@, "getRates")])
  /\ UNCHANGED <<utcNow, s3Object, last, runs, ticks, calc>>

\* getSalesForDate: the exchange rates arrive and the day is parsed.
RatesReply(reply) ==
  /\ run.pc = "getRates"
  /\ IF RatesRejected(reply) THEN Becomes(Fail(Here, "getExchangeRates"))
     ELSE
       LET rates == RatesOf(reply)
           day == parseSalesReport(run.report[1], rates)
           st == [Here EXCEPT !.run.rates = <<rates>>,
                              !.run.sales.day = <<day>>,
                              !.log.ratesDay = <<rates>>]
       IN  IF DayIsEmpty(day) THEN Becomes(getAllAppInfo(st))
           ELSE Becomes(FetchReport(st, "getReportPrevDay", PrevDate(run.date[1])))
  /\ UNCHANGED <<utcNow, s3Object, last, runs, ticks, calc>>

\* getSalesForDate: the report of the day before arrives.
PrevDayReport(reply) ==
  /\ run.pc = "getReportPrevDay"
  /\ LET res == DailySalesResult(reply)
         st == [Here EXCEPT !.log.prevDayReply = <<reply>>]
         rates == ComparisonRates(run.rates[1])
     IN  IF res.kind = "throw" THEN Becomes(Fail(st, "getDailySales"))
         ELSE IF ParseThrows(res) THEN Becomes(Fail(st, "parseSalesReport"))
         ELSE Becomes(FetchReport(
                [st EXCEPT !.run.sales.prevDay = <<parseSalesReport(res.rows, rates)>>,
                           !.log.ratesPrevDay = <<rates>>],
                "getReportPrevWeek", PrevWeekDate(run.date[1])))
  /\ UNCHANGED <<utcNow, s3Object, last, runs, ticks, calc>>

\* getSalesForDate: the report of the week before arrives; getAllAppInfo.
PrevWeekReport(reply) ==
  /\ run.pc = "getReportPrevWeek"
  /\ LET res == DailySalesResult(reply)
         st == [Here EXCEPT !.log.prevWeekReply = <<reply>>]
         rates == ComparisonRates(run.rates[1])
     IN  IF res.kind = "throw" THEN Becomes(Fail(st, "getDailySales"))
         ELSE IF ParseThrows(res) THEN Becomes(Fail(st, "parseSalesReport"))
         ELSE Becomes(getAllAppInfo(
                [st EXCEPT !.run.sales.prevWeek = <<parseSalesReport(res.rows, rates)>>,
                           !.log.ratesPrevWeek = <<rates>>]))
  /\ UNCHANGED <<utcNow, s3Object, last, runs, ticks, calc>>

\* The request callback of one getAppInfo, in any order.  The first
\* rejection rejects Promise.all; the lookups still in flight complete
\* later and their .then still sets the icon.
AppInfoReply(appID, reply) ==
  /\ appID \in run.pending
  /\ LET st == [Here EXCEPT !.run.pending = @ \ {appID},
                            !.log.lookupReplies = Append(@, [appID |-> appID, reply |-> reply])]
     IN  IF AppInfoRejected(reply)
         THEN Becomes(IF run.pc = "getAppInfo" THEN Fail(st, "getAppInfo") ELSE st)
         ELSE
           LET got == [st EXCEPT !.run.sales.day[1][appID].icon =
                                   reply.results[1].artworkUrl60]
           IN  Becomes(IF run.pc = "getAppInfo" /\ got.run.pending = {}
                       THEN Deliver(got) ELSE got)
  /\ UNCHANGED <<utcNow, s3Object, last, runs, ticks, calc>>

\* The request.post callback of postToSlack; without err Slack has the
\* message.
PostReply(err) ==
  /\ run.pc = "post"
  /\ LET st == IF err THEN Here
               ELSE [Here EXCEPT !.log.slack = Append(@, run.message[1]),
                                 !.log.trace = Append(@, "postOk")]
     IN  Becomes(IF PostRejected(err) THEN Fail(st, "postToSlack") ELSE Continue(st))
  /\ UNCHANGED <<utcNow, s3Object, last, runs, ticks, calc>>

\* The s3.putObject callback of setLastDate; without err the object holds
\* the body.
PutObjectReply(err) ==
  /\ run.pc = "putObject"
  /\ s3Object' = IF err THEN s3Object ELSE <<log.puts[Len(log.puts)]>>
  /\ LET st == IF err THEN Here ELSE [Here EXCEPT !.log.trace = Append(@, "putOk")]
     IN  Becomes(IF PutRejected(err) THEN Fail(st, "setLastDate") ELSE Continue(st))
  /\ UNCHANGED <<utcNow, last, runs, ticks, calc>>

\* A UTC midnight passes between two invocations.
Tick ==
  /\ run.pc = "idle" \/ Ended(run)
  /\ ticks < MaxTicks
  /\ ticks' = ticks + 1
  /\ utcNow' = utcNow + 1
  /\ UNCHANGED <<s3Object, run, log, last, runs, calc>>

Next ==
  \/ \E opts \in Environments : Handler(opts)
  \/ \E reply \in StatusReplies : StatusReply(reply)
  \/ \E err \in BOOLEAN : GetObjectReply(err)
  \/ \E reply \in DayReplies : DayReport(reply)
  \/ \E reply \in RatesReplies : RatesReply(reply)
  \/ \E reply \in PrevReplies : PrevDayReport(reply)
  \/ \E reply \in PrevReplies : PrevWeekReport(reply)
  \/ \E appID \in run.pending, reply \in AppInfoReplies : AppInfoReply(appID, reply)
  \/ \E err \in BOOLEAN : PostReply(err)
  \/ \E err \in BOOLEAN : PutObjectReply(err)
  \/ Tick

Spec == Init /\ [][Next]_vars

\* ------------------------------------------------------------------ claims

\* What the report source, the status service and the lookup service
\* answered, as the specification classifies the answers.
NotYetPublished(reply) == reply.err /\ reply.code \in {210, 211, 212}
NoSales(reply) == reply.err /\ reply.code = 213
MalformedStatus(reply) ==
  /\ ~reply.err
  /\ ~reply.present \/ ~reply.hasStatus \/ ~reply.hasMessage \/ reply.message = <<>>
BrokenLookup(reply) ==
  \/ reply.err
  \/ ~reply.hasBody
  \/ reply.results = <<>>
  \/ reply.results[1].trackName = ""
  \/ reply.results[1].artworkUrl60 = ""

Asked(what) == Count(log.trace, what)
Before(first, then) ==
  \A i \in 1..Len(log.trace) :
    log.trace[i] = then => \E j \in 1..(i - 1) : log.trace[j] = first

\* C1: when the fetch of the current day's report answers with code 210,
\* 211 or 212, the invocation ends without error with the status
\* 'No new sales report', nothing is posted to Slack and setLastDate is
\* never called.
C1_NotYetPublishedIsNoOp ==
  (log.dayReply # <<>> /\ NotYetPublished(log.dayReply[1])) =>
    /\ run.pc = "done"
    /\ ~run.failed
    /\ run.status = "No new sales report"
    /\ Asked("post") = 0
    /\ log.slack = <<>>
    /\ Asked("putObject") = 0
    /\ log.puts = <<>>
    /\ s3Object = log.cursorAtStart

C1_Witness ==
  /\ log.dayReply = <<ReportError(212)>>
  /\ run.status = "No new sales report"
  /\ log.cursorAtStart # <<>>

\* C2: an invocation that ends in failure leaves the cursor object as it
\* was when the invocation began, and no invocation writes the cursor more
\* than once.
C2_FailedRunKeepsCursor ==
  /\ run.failed => s3Object = log.cursorAtStart
  /\ Len(log.puts) <= 1
  /\ Asked("putOk") <= 1

C2_Witness ==
  /\ run.failed
  /\ run.error = "setLastDate"
  /\ log.cursorAtStart # <<>>
  /\ s3Object = log.cursorAtStart

\* C3 as stated: in an invocation that ends in failure Slack accepted no
\* message, whatever step failed.
C3_FailedRunSentNothing == run.failed => log.slack = <<>>

\* C3 amended: in an invocation that fails at any step up to and including
\* the post, Slack accepted no message; an invocation that fails at the
\* cursor write that follows the post has delivered exactly one message.
C3_FailedBeforeCursorWriteSentNothing ==
  run.failed =>
    IF run.error = "setLastDate" THEN Len(log.slack) = 1 ELSE log.slack = <<>>

C3_Witness ==
  /\ run.failed
  /\ run.error = "postToSlack"
  /\ run.message # <<>>
  /\ run.message[1].attachments # <<>>

\* C4: with a current day that has sales, a fetch of the day before or of
\* the week before that answers 210, 211, 212 or 213 counts as an empty
\* mapping for that date, and the invocation does not fail because of it.
C4_MissingComparisonIsEmpty ==
  /\ (log.prevDayReply # <<>>
      /\ (NotYetPublished(log.prevDayReply[1]) \/ NoSales(log.prevDayReply[1]))) =>
       /\ run.sales.prevDay = <<EmptyApps>>
       /\ run.error # "parseSalesReport"
  /\ (log.prevWeekReply # <<>>
      /\ (NotYetPublished(log.prevWeekReply[1]) \/ NoSales(log.prevWeekReply[1]))) =>
       /\ run.sales.prevWeek = <<EmptyApps>>
       /\ run.error # "parseSalesReport"

\* C5 as stated: after an invocation that failed while processing date D,
\* the next invocation computes the same date D, with or without a cursor.
C5_FailedDateIsRetried ==
  (last.failed /\ last.date # <<>> /\ run.date # <<>>) => run.date = last.date

\* C5 amended: the next invocation computes the same date D when the
\* cursor was present at the failed invocation, or when it was absent and
\* the UTC date is the same at both invocations.
C5_FailedDateIsRetriedWithCursor ==
  (last.failed /\ last.date # <<>> /\ run.date # <<>>
   /\ (last.hadCursor \/ log.utcAtRead = last.utcAtRead)) =>
    run.date = last.date

C5_Witness ==
  /\ last.failed
  /\ last.hadCursor
  /\ last.date # <<>>
  /\ run.date = last.date
  /\ log.utcAtRead # last.utcAtRead

\* C6: putObject is called only after Slack has accepted the message of
\* the same invocation, and the body written is the date the invocation
\* computed: the cursor read plus one day, or the UTC date minus two.
C6_CursorSetAfterSend ==
  /\ Before("postOk", "putObject")
  /\ Asked("putObject") > 0 => Len(log.slack) = 1
  /\ Asked("putOk") > 0 =>
       /\ DateIsValid(s3Object[1])
       /\ ParseDate(s3Object[1]) = run.date[1]
       /\ run.date[1] = IF log.cursorAtStart # <<>>
                        THEN ParseDate(log.cursorAtStart[1]) + 1
                        ELSE log.utcAtRead[1] - 2

C6_Witness ==
  /\ run.status = "Success"
  /\ log.cursorAtStart = <<[y |-> 2017, m |-> 12, d |-> 31]>>
  /\ s3Object = <<[y |-> 2018, m |-> 1, d |-> 1]>>
  /\ log.trace[Len(log.trace)] = "putOk"

\* C7: when the current day's report is there but parses to a mapping
\* without keys, the message is the one line of text for the date without
\* attachments, no lookup is made, no comparison report is fetched, only
\* Slack or S3 can still fail the invocation, and otherwise it ends with
\* the cursor at the date.
C7_EmptyDayIsNoSales ==
  (run.sales.day # <<>> /\ DOMAIN run.sales.day[1] = {}) =>
    /\ run.message # <<>>
    /\ run.message[1].attachments = <<>>
    /\ run.message[1].text = <<"No app sales on ", FormatLongDate(run.date[1])>>
    /\ log.lookups = <<>>
    /\ Asked("lookup") = 0
    /\ Len(log.fetched) = 1
    /\ run.failed => run.error \in {"postToSlack", "setLastDate"}
    /\ run.pc = "done" =>
         /\ run.status = "Success"
         /\ log.slack = run.message
         /\ s3Object = <<FormatDate(run.date[1])>>

C7_Witness ==
  /\ log.dayReply = <<ReportError(213)>>
  /\ run.pc = "done"
  /\ run.message = <<[text |-> <<"No app sales on ", <<"December", 30, 2017>>>>,
                      attachments |-> <<>>]>>
  /\ s3Object = <<[y |-> 2017, m |-> 12, d |-> 30]>>

\* C8: one lookup is made for each key of the day mapping, the lookups
\* complete in any order, the post is made only after every lookup has
\* succeeded, and when a lookup fails the invocation fails without a post
\* and without a cursor write, whatever the order of the other lookups.
C8_LookupsBeforeSend ==
  LET replies == log.lookupReplies
      day == run.sales.day[1]
  IN  /\ log.lookups # <<>> =>
           /\ SeqToSet(log.lookups) = DOMAIN day
           /\ Len(log.lookups) = Cardinality(DOMAIN day)
           /\ Asked("lookup") = Cardinality(DOMAIN day)
      /\ \A i, j \in 1..Len(replies) :
           replies[i].appID = replies[j].appID => i = j
      /\ (Asked("post") > 0 /\ run.sales.day # <<>>) =>
           \A k \in DOMAIN day :
             \E i \in 1..Len(replies) :
               replies[i].appID = k /\ ~BrokenLookup(replies[i].reply)
      /\ (\E i \in 1..Len(replies) : BrokenLookup(replies[i].reply)) =>
           /\ run.failed
           /\ Asked("post") = 0
           /\ log.slack = <<>>
           /\ Asked("putObject") = 0
           /\ s3Object = log.cursorAtStart

C8_Witness ==
  /\ log.lookups = <<"1001", "1002">>
  /\ Len(log.lookupReplies) = 2
  /\ log.lookupReplies[1].appID = "1002"
  /\ ~BrokenLookup(log.lookupReplies[1].reply)
  /\ BrokenLookup(log.lookupReplies[2].reply)
  /\ run.failed

\* C9: the exchange rates are asked for at most once in an invocation,
\* after the current day's report has arrived and never when it is not yet
\* published, and the reports of the day before and the week before are
\* parsed with the table the current day was parsed with.
C9_OneRateTable ==
  /\ Asked("getRates") <= 1
  /\ Before("getReport", "getRates")
  /\ Asked("getRates") > 0 =>
       log.dayReply # <<>> /\ ~NotYetPublished(log.dayReply[1])
  /\ log.ratesPrevDay # <<>> =>
       /\ log.ratesPrevDay = log.ratesDay
       /\ run.sales.prevDay[1] =
            parseSalesReport(DailySalesResult(log.prevDayReply[1]).rows, log.ratesDay[1])
  /\ log.ratesPrevWeek # <<>> =>
       /\ log.ratesPrevWeek = log.ratesDay
       /\ run.sales.prevWeek[1] =
            parseSalesReport(DailySalesResult(log.prevWeekReply[1]).rows, log.ratesDay[1])

C9_Witness ==
  /\ log.ratesPrevWeek # <<>>
  /\ log.ratesDay[1]["EUR"] = 2
  /\ log.prevDayReply = <<ReportText(TextMore)>>
  /\ log.prevWeekReply = <<ReportText(TextMore)>>
  /\ run.sales.prevWeek[1]["1001"].revenue = 4

\* C10: when getStatus answers without a value, without Status, without
\* Status.Message or with an empty Status.Message, the invocation fails
\* with the error handed to the callback, and it has neither read nor
\* written the cursor, fetched no report and no rates, and posted nothing.
C10_MalformedStatusAborts ==
  (log.statusReply # <<>> /\ MalformedStatus(log.statusReply[1])) =>
    /\ run.failed
    /\ run.pc = "failed"
    /\ run.error = "checkSalesReportStatus"
    /\ log.trace = <<"getStatus">>
    /\ log.fetched = <<>>
    /\ log.slack = <<>>
    /\ log.puts = <<>>
    /\ s3Object = log.cursorAtStart

C10_Witness ==
  /\ log.statusReply # <<>>
  /\ log.statusReply[1].hasMessage
  /\ log.statusReply[1].message = <<>>
  /\ run.failed

\* The report fetches of the invocation that have been answered.
Answered ==
  Cardinality({r \in {"dayReply", "prevDayReply", "prevWeekReply"} : log[r] # <<>>})

\* C16: the report fetches of one invocation are made one after the other
\* and at most one is unanswered at any time; the fetch for the day before
\* is made only once the day's report has arrived and was parsed to a
\* mapping with at least one app, and the fetch for the week before only
\* once the day before has arrived and was parsed; when the day's mapping
\* is empty no further fetch is made and prevDay and prevWeek stay unset.
C16_FetchesInOrder ==
  LET n == Len(log.fetched)
  IN  /\ n <= 3
      /\ n - Answered \in {0, 1}
      /\ n >= 1 => log.fetched[1] = FormatDate(run.date[1])
      /\ n >= 2 => /\ log.dayReply # <<>>
                   /\ run.sales.day # <<>>
                   /\ DOMAIN run.sales.day[1] # {}
                   /\ log.fetched[2] = FormatDate(run.date[1] - 1)
      /\ n >= 3 => /\ log.prevDayReply # <<>>
                   /\ run.sales.prevDay # <<>>
                   /\ log.fetched[3] = FormatDate(run.date[1] - 7)
      /\ (run.sales.day # <<>> /\ DOMAIN run.sales.day[1] = {}) =>
           /\ n = 1
           /\ run.sales.prevDay = <<>>
           /\ run.sales.prevWeek = <<>>

C16_Witness ==
  /\ Len(log.fetched) = 3
  /\ run.sales.prevWeek # <<>>
  /\ run.status = "Success"

C16_WitnessEmptyDay ==
  /\ run.sales.day # <<>>
  /\ DOMAIN run.sales.day[1] = {}
  /\ run.status = "Success"

\* C19: once the cursor object exists, an invocation that writes it stores
\* the day after the date the object held when the invocation started, and
\* writes it at most once; an invocation that ends with an error or with
\* 'No new sales report' leaves the object as it found it.  So over
\* successive invocations the cursor moves forward one day at a time.
C19_CursorAdvancesByOneDay ==
  /\ Len(log.puts) <= 1
  /\ (log.cursorAtStart # <<>> /\ s3Object # log.cursorAtStart) =>
       /\ DateIsValid(log.cursorAtStart[1])
       /\ s3Object # <<>>
       /\ DateIsValid(s3Object[1])
       /\ ParseDate(s3Object[1]) = ParseDate(log.cursorAtStart[1]) + 1
  /\ (runs > 0 /\ (run.failed \/ run.status = "No new sales report")) =>
       s3Object = log.cursorAtStart

\* The third invocation has moved the cursor a second time.
C19_Witness ==
  /\ runs = 3
  /\ log.cursorAtStart = <<FormatDate(Today0 - 1)>>
  /\ s3Object = <<FormatDate(Today0)>>
  /\ run.status = "Success"

\* C20: once an invocation for a date has ended with 'Success', no later
\* invocation delivers a message for that date or for an earlier one; a
\* date is delivered again only after an invocation that delivered it and
\* then ended with an error.
C20_NoResendAfterSuccess ==
  (log.slack # <<>>) =>
    /\ last.succeeded # <<>> => run.date[1] > last.succeeded[1]
    /\ Len(log.slack) = 1

\* The date delivered by an invocation whose cursor write failed is
\* delivered again by the next one, after an earlier date has ended with
\* 'Success'.
C20_Witness ==
  /\ log.slack # <<>>
  /\ last.failed
  /\ last.delivered
  /\ run.date = last.date
  /\ last.succeeded # <<>>
  /\ run.status = "Success"

\* ------------------------------------------- parseSalesReport on its own

\* The column names parseSalesReport looks up in the header.
RequiredColumns ==
  <<"Apple Identifier", "Country Code", "Currency of Proceeds", "Title",
    "Units", "Developer Proceeds", "Product Type Identifier">>

\* A row of the report: an install, an in-app purchase or an update ("7"),
\* with proceeds in a currency of the rate tables or in one of none.
DataRow(appID, type, currency, units) ==
  <<"APPLE", IF appID = "1001" THEN "Alpha" ELSE "Bravo", units, "4",
    appID, currency, "US", type>>

DataRows ==
  {DataRow(appID, type, currency, units) :
     appID \in {"1001", "1002"}, type \in {"1F", "IA1", "7"},
     currency \in {"USD", "EUR", "XXX"}, units \in {"1", "2"}}

SeqsUpTo(S, n) == UNION {[1..k -> S] : k \in 0..n}

\* The row without its i-th cell.
DropCell(row, i) ==
  [j \in 1..(Len(row) - 1) |-> IF j < i THEN row[j] ELSE row[j + 1]]

\* A report of the given data rows; with column > 0 the report has neither
\* that column's name in the header nor its cell in any row.
Report(rows, column) ==
  LET full == <<Header>> \o rows
  IN  IF column = 0 THEN full
      ELSE [i \in 1..Len(full) |-> DropCell(full[i], column)]

\* The tables getExchangeRates resolves to.
RateTables == {RatesOf(reply) : reply \in {r \in RatesReplies : ~RatesRejected(r)}}

\* A call of parseSalesReport that has not returned.
ParseOf(report, rates) ==
  [fn |-> "parseSalesReport", args |-> [report |-> report, rates |-> rates],
   result |-> <<>>]

Idle ==
  /\ utcNow = Today0
  /\ s3Object = <<>>
  /\ run = NoRun
  /\ log = NoLog
  /\ last = NoLast
  /\ runs = 0
  /\ ticks = 0

\* The arguments: a report that is the empty array, or a header with up to
\* MaxRows data rows, complete or lacking one column; and a rate table.
ParseInit ==
  /\ Idle
  /\ \E rates \in RateTables :
       \/ calc = ParseOf(<<>>, rates)
       \/ \E rows \in SeqsUpTo(DataRows, MaxRows), column \in 0..Len(Header) :
            calc = ParseOf(Report(rows, column), rates)

\* The call returns.
ParseCall ==
  /\ calc.fn = "parseSalesReport"
  /\ calc.result = <<>>
  /\ calc' = [calc EXCEPT !.result =
                 <<parseSalesReport(calc.args.report, calc.args.rates)>>]
  /\ UNCHANGED <<utcNow, s3Object, run, log, last, runs, ticks>>

ParseNext == ParseCall

ParseSpec == ParseInit /\ [][ParseNext]_vars

\* The call of parseSalesReport has returned a mapping for a report of at
\* least two rows.
Parsed ==
  /\ calc.fn = "parseSalesReport"
  /\ calc.result # <<>>
  /\ Len(calc.args.report) >= 2

\* The header has every column name the parse looks up.
CompleteHeader(header) ==
  \A i \in 1..Len(RequiredColumns) :
    \E j \in 1..Len(header) : header[j] = RequiredColumns[i]

\* C11: a report of at least two rows whose header lacks one of the
\* required column names is never parsed to a mapping: the parse fails.
C11_MissingColumnFailsParse ==
  Parsed => CompleteHeader(calc.args.report[1])

\* The sum of the values of a function with a finite domain.
RECURSIVE SumOf(_)
SumOf(f) ==
  IF DOMAIN f = {} THEN 0
  ELSE LET x == CHOOSE x \in DOMAIN f : TRUE
       IN  f[x] + SumOf([y \in DOMAIN f \ {x} |-> f[y]])

\* The cells of a data row under a complete header, by column.
UnitsOf(row) == Numerals[row[3]]
ProceedsOf(row) == Numerals[row[4]]
AppOf(row) == row[5]
CurrencyOf(row) == row[6]
TypeOf(row) == row[8]

\* The sum over the rows of one app, in currencies of the table and of
\* the given product types, of the row's units or of its proceeds in USD.
RowSum(rows, rates, appID, types, what) ==
  LET mine == {i \in 1..Len(rows) :
                 /\ AppOf(rows[i]) = appID
                 /\ TypeOf(rows[i]) \in types
                 /\ CurrencyOf(rows[i]) \in DOMAIN rates}
  IN  SumOf([i \in mine |->
               IF what = "units" THEN UnitsOf(rows[i])
               ELSE (UnitsOf(rows[i]) * ProceedsOf(rows[i]))
                      \div rates[CurrencyOf(rows[i])]])

\* C12: for a report of at least two rows with a complete header, the
\* mapping has one record for each app identifier of the rows; its
\* installs is the sum of the units of the app's install rows in a
\* currency of the rate table, its revenue the sum of units * proceeds /
\* rate over the app's install and in-app purchase rows in a currency of
\* the table; rows of other product types add to neither.
C12_ParseSums ==
  (Parsed /\ calc.args.report[1] = Header) =>
    LET rows == Tail(calc.args.report)
        rates == calc.args.rates
        apps == calc.result[1]
    IN  /\ DOMAIN apps = {AppOf(rows[i]) : i \in 1..Len(rows)}
        /\ \A appID \in DOMAIN apps :
             /\ apps[appID].installs =
                  RowSum(rows, rates, appID, INSTALL_TYPES, "units")
             /\ apps[appID].revenue =
                  RowSum(rows, rates, appID, INSTALL_TYPES \cup IAP_TYPES, "usd")

\* An install, an in-app purchase and an update of one app, and rows of
\* both kinds of currency.
C12_Witness ==
  /\ Parsed
  /\ calc.args.report[1] = Header
  /\ Len(calc.args.report) = 3
  /\ TypeOf(calc.args.report[2]) = "1F"
  /\ TypeOf(calc.args.report[3]) = "IA1"
  /\ AppOf(calc.args.report[2]) = AppOf(calc.args.report[3])
  /\ CurrencyOf(calc.args.report[2]) = "EUR"
  /\ CurrencyOf(calc.args.report[3]) = "USD"
  /\ calc.result[1][AppOf(calc.args.report[2])].installs = 2
  /\ calc.result[1][AppOf(calc.args.report[2])].revenue = 6

\* The data rows whose currency the rate table has.
Resolvable(rows, rates) ==
  SelectSeq(rows, LAMBDA row : CurrencyOf(row) \in DOMAIN rates)

\* C13: the rows whose currency the rate table lacks change no installs
\* and no revenue: every record has the sums the report has without those
\* rows, and an app that has only such rows has a record with installs 0
\* and revenue 0.  So a report of at least two rows has a record for each
\* of its apps, whatever the currencies.
C13_UnknownCurrencyKeepsRecord ==
  (Parsed /\ calc.args.report[1] = Header) =>
    LET rows == Tail(calc.args.report)
        rates == calc.args.rates
        apps == calc.result[1]
        without == parseSalesReport(<<Header>> \o Resolvable(rows, rates), rates)
    IN  /\ DOMAIN apps = {AppOf(rows[i]) : i \in 1..Len(rows)}
        /\ DOMAIN apps # {}
        /\ \A appID \in DOMAIN apps :
             IF appID \in DOMAIN without
             THEN /\ apps[appID].installs = without[appID].installs
                  /\ apps[appID].revenue = without[appID].revenue
             ELSE /\ apps[appID].installs = 0
                  /\ apps[appID].revenue = 0

\* Every row of the report is an install in a currency without a rate.
C13_Witness ==
  /\ Parsed
  /\ calc.args.report[1] = Header
  /\ Len(calc.args.report) = 3
  /\ \A i \in 2..3 : /\ CurrencyOf(calc.args.report[i]) = "XXX"
                      /\ TypeOf(calc.args.report[i]) = "1F"
  /\ DOMAIN calc.result[1] = {"1001", "1002"}
  /\ \A appID \in DOMAIN calc.result[1] : calc.result[1][appID].installs = 0

\* ------------------------------------------ buildSlackMessage on its own

AppID(i) == ToString(1000 + i)

AppRecord(title, installs, revenue) ==
  [title |-> title, country |-> "US", icon |-> "icon",
   installs |-> installs, revenue |-> revenue]

\* The title of the i-th of n apps: titles ascend with the identifiers,
\* descend, or are rotated through the alphabet.
TitleOf(i, n, shuffle) ==
  CASE shuffle = "ascending"  -> TitleOrder[i]
    [] shuffle = "descending" -> TitleOrder[n + 1 - i]
    [] shuffle = "rotated"    -> TitleOrder[((i + 6) % Len(TitleOrder)) + 1]

\* An app that is in the mappings of the comparison dates only.
OtherApp == [k \in {"999"} |-> AppRecord("Other", 100, 100)]

\* The mapping apps, and the records of OtherApp for keys apps lacks.
WithOther(apps) ==
  [k \in DOMAIN apps \cup DOMAIN OtherApp |->
     IF k \in DOMAIN apps THEN apps[k] ELSE OtherApp[k]]

\* A snapshot of n apps; the free ones have no revenue.  The day before
\* has every second app of the day, the week before every third, and both
\* have OtherApp.
ManyApps(n, shuffle, paid) ==
  LET record(i, shift) ==
        AppRecord(TitleOf(i, n, shuffle), (i + shift) % 3,
                  IF paid THEN 2 * ((i + shift) % 4) ELSE 0)
      some(step, shift) ==
        [k \in {AppID(i) : i \in {j \in 1..n : j % step = 0}} |->
           record(AppNumbers[k] - 1000, shift)]
  IN  [day |-> <<some(1, 0)>>,
       prevDay |-> <<WithOther(some(2, 1))>>,
       prevWeek |-> <<WithOther(some(3, 2))>>]

\* A snapshot of two apps: the numbers of the first vary, on the day and
\* the day before, from which it may be missing.
TwoApps(installs, revenue, prev) ==
  [day |-> <<[k \in {AppID(1), AppID(2)} |->
               IF k = AppID(1) THEN AppRecord("Alpha", installs, revenue)
               ELSE AppRecord("Bravo", 1, 0)]>>,
   prevDay |-> <<[k \in {AppID(i) : i \in {2} \cup (IF prev = <<>> THEN {} ELSE {1})} |->
                   IF k = AppID(1) THEN AppRecord("Alpha", prev[1], prev[2])
                   ELSE AppRecord("Bravo", 0, 2)]>>,
   prevWeek |-> <<EmptyApps>>]

InstallCounts == 0..2
Revenues == {-2, 0, 2}

Snapshots ==
  {ManyApps(n, shuffle, paid) :
     n \in 1..MaxApps, shuffle \in {"ascending", "descending", "rotated"},
     paid \in BOOLEAN}
  \cup {TwoApps(installs, revenue, prev) :
          installs \in InstallCounts, revenue \in Revenues,
          prev \in {<<>>} \cup (InstallCounts \X Revenues)}
  \cup {[day |-> <<EmptyApps>>, prevDay |-> <<>>, prevWeek |-> <<>>]}

MessageCalls ==
  {[fn |-> "buildSlackMessage", args |-> [sales |-> sales, date |-> Today0 - 2],
    result |-> <<>>] : sales \in Snapshots}

MessageInit == Idle /\ calc \in MessageCalls

\* The call returns.
MessageCall ==
  /\ calc.fn = "buildSlackMessage"
  /\ calc.result = <<>>
  /\ calc' = [calc EXCEPT !.result =
                 <<buildSlackMessage(calc.args.sales, calc.args.date)>>]
  /\ UNCHANGED <<utcNow, s3Object, run, log, last, runs, ticks>>

MessageNext == MessageCall

MessageSpec == MessageInit /\ [][MessageNext]_vars

\* The call of buildSlackMessage has returned for a snapshot whose day
\* mapping has apps.
Built ==
  /\ calc.fn = "buildSlackMessage"
  /\ calc.result # <<>>
  /\ DOMAIN calc.args.sales.day[1] # {}

Min(a, b) == IF a < b THEN a ELSE b

\* The apps of the mapping whose title comes before the given one.
TitlesBefore(apps, title) ==
  {k \in DOMAIN apps :
     IndexOf(TitleOrder, apps[k].title) < IndexOf(TitleOrder, title)}

\* C14: for a day mapping of n apps the message has one Totals section,
\* in first place, followed by min(n, 20) sections of apps: the i-th of
\* them is the app with exactly i - 1 of the day's titles before its own.
\* With 25 apps the message has 21 sections.
C14_CappedSectionsInTitleOrder ==
  Built =>
    LET day == calc.args.sales.day[1]
        n == Cardinality(DOMAIN day)
        sections == calc.result[1].attachments
    IN  /\ Len(sections) = 1 + Min(n, 20)
        /\ sections[1].title = "Totals"
        /\ \A i \in 1..Min(n, 20) :
             /\ sections[i + 1].title # "Totals"
             /\ \E k \in DOMAIN day :
                  /\ sections[i + 1].author_name = day[k].title
                  /\ Cardinality(TitlesBefore(day, day[k].title)) = i - 1
        /\ n = 25 => Len(sections) = 21

\* 25 apps whose titles descend with the identifiers: 21 sections, the
\* first app section is the app with the greatest identifier.
C14_Witness ==
  /\ Built
  /\ Cardinality(DOMAIN calc.args.sales.day[1]) = 25
  /\ calc.args.sales.day[1][AppID(25)].title = "Alpha"
  /\ Len(calc.result[1].attachments) = 21
  /\ calc.result[1].attachments[2].author_name = "Alpha"
  /\ calc.result[1].attachments[21].author_name = "Tango"

\* The rule of the good tag.
GoodDay(now, before) ==
  \/ now.revenue # 0 /\ now.revenue > before.revenue
  \/ now.revenue = 0 /\ now.installs > before.installs

\* The numbers of an app on a date, 0 and 0 when the date lacks the app.
NumbersOf(apps, k) ==
  IF k \in DOMAIN apps
  THEN [installs |-> apps[k].installs, revenue |-> apps[k].revenue]
  ELSE [installs |-> 0, revenue |-> 0]

\* The totals of a date over the apps of the day.
TotalsOf(apps, day) ==
  [installs |-> SumOf([k \in DOMAIN day |-> NumbersOf(apps, k).installs]),
   revenue  |-> SumOf([k \in DOMAIN day |-> NumbersOf(apps, k).revenue])]

Tag(good) == IF good THEN "good" ELSE "danger"

\* C15: the section of an app is tagged good exactly when its revenue is
\* not zero and greater than the day before, or its revenue is zero and
\* its installs are more than the day before, an app the day before lacks
\* counting as 0 and 0; the Totals section is tagged by the same rule on
\* the totals of the day and of the day before; otherwise the tag is bad.
C15_GoodOrBad ==
  Built =>
    LET day == calc.args.sales.day[1]
        prevDay == calc.args.sales.prevDay[1]
        sections == calc.result[1].attachments
    IN  /\ \A i \in 2..Len(sections) : \A k \in DOMAIN day :
             day[k].title = sections[i].author_name =>
               sections[i].color =
                 Tag(GoodDay(NumbersOf(day, k), NumbersOf(prevDay, k)))
        /\ sections[1].color =
             Tag(GoodDay(TotalsOf(day, day), TotalsOf(prevDay, day)))

\* An app with more installs than the day before and the same revenue,
\* which is not zero, is bad; so are the totals, with less revenue than
\* the day before; the other app, without revenue and with more installs,
\* is good.
C15_Witness ==
  /\ Built
  /\ DOMAIN calc.args.sales.day[1] = {AppID(1), AppID(2)}
  /\ AppID(1) \in DOMAIN calc.args.sales.prevDay[1]
  /\ calc.args.sales.day[1][AppID(1)].revenue = 2
  /\ calc.args.sales.prevDay[1][AppID(1)].revenue = 2
  /\ calc.args.sales.day[1][AppID(1)].installs = 2
  /\ calc.args.sales.prevDay[1][AppID(1)].installs = 0
  /\ calc.result[1].attachments[2].color = "danger"
  /\ calc.result[1].attachments[3].color = "good"
  /\ calc.result[1].attachments[1].color = "danger"

\* The day before lacks the app, which has no revenue and one install:
\* the app is good.
C15_WitnessMissing ==
  /\ Built
  /\ DOMAIN calc.args.sales.day[1] = {AppID(1), AppID(2)}
  /\ AppID(1) \notin DOMAIN calc.args.sales.prevDay[1]
  /\ calc.args.sales.day[1][AppID(1)].revenue = 0
  /\ calc.args.sales.day[1][AppID(1)].installs = 1
  /\ calc.result[1].attachments[2].color = "good"

\* C18: the numbers of the Totals section are the sums, over the apps of
\* the day mapping and no others, of the day, of the day before and of
\* the week before: apps beyond the first 20 are summed too, and an app
\* only in the mapping of the day before or of the week before adds
\* nothing.
C18_TotalsOverAppsOfDay ==
  Built =>
    LET day == calc.args.sales.day[1]
        d == TotalsOf(day, day)
        p == TotalsOf(calc.args.sales.prevDay[1], day)
        w == TotalsOf(calc.args.sales.prevWeek[1], day)
        totals == calc.result[1].attachments[1]
    IN  /\ totals.title = "Totals"
        /\ totals.fields = createFields(d.installs, d.revenue, p.installs,
                                        p.revenue, w.installs, w.revenue)
        /\ totals.color = Tag(GoodDay(d, p))

\* 25 paid apps, those after the first 20 with installs and revenue, and
\* an app with installs and revenue that only the comparison dates have.
C18_Witness ==
  /\ Built
  /\ Cardinality(DOMAIN calc.args.sales.day[1]) = 25
  /\ Len(calc.result[1].attachments) = 21
  /\ calc.args.sales.day[1][AppID(25)].title = "Yankee"
  /\ calc.args.sales.day[1][AppID(25)].installs > 0
  /\ calc.args.sales.day[1][AppID(25)].revenue > 0
  /\ "999" \in DOMAIN calc.args.sales.prevDay[1] \ DOMAIN calc.args.sales.day[1]
  /\ "999" \in DOMAIN calc.args.sales.prevWeek[1]
  /\ calc.args.sales.prevDay[1]["999"].installs > 0

\* ---------------------------------------- formatPercentsField on its own

\* Installs and revenues, of the day and of the dates it is compared with.
Values == (-MaxValue..MaxValue) \cup {50, 100, 150}

PercentCalls ==
  {[fn |-> "formatPercentsField",
    args |-> [dayValue |-> v, prevDayValue |-> b, prevWeekValue |-> w],
    result |-> <<>>] : v \in Values, b \in Values, w \in Values}

PercentInit == Idle /\ calc \in PercentCalls

\* The call returns.
PercentCall ==
  /\ calc.fn = "formatPercentsField"
  /\ calc.result = <<>>
  /\ calc' = [calc EXCEPT !.result =
                 <<formatPercentsField(calc.args.dayValue, calc.args.prevDayValue,
                                       calc.args.prevWeekValue)>>]
  /\ UNCHANGED <<utcNow, s3Object, run, log, last, runs, ticks>>

PercentNext == PercentCall

PercentSpec == PercentInit /\ [][PercentNext]_vars

\* The number a sequence of groups of three digits writes.
RECURSIVE GroupsValue(_)
GroupsValue(groups) ==
  IF groups = <<>> THEN 0
  ELSE GroupsValue(SubSeq(groups, 1, Len(groups) - 1)) * 1000 + groups[Len(groups)]

\* A rendered percentage: sign prefix, whole percents, tenth.
Rendered(plus, whole, tenth) ==
  [plus |-> plus, minus |-> ~plus, groups |-> <<whole>>, tenth |-> tenth]

\* pct renders the change from base b to value v: +100.0% for b = 0, else
\* (v - b) / abs(b) to the nearest tenth of a percent, with '+' exactly
\* when it is not negative and '-' exactly when it is.
RendersChange(pct, v, b) ==
  IF b = 0 THEN pct = Rendered(TRUE, 100, 0)
  ELSE LET tenths == GroupsValue(pct.groups) * 10 + pct.tenth
       IN  /\ pct.plus <=> v - b >= 0
           /\ pct.minus <=> v - b < 0
           /\ pct.tenth \in 0..9
           /\ 2 * Abs(tenths * Abs(b) - 1000 * Abs(v - b)) <= Abs(b)

\* C17: for a value v and a baseline b, formatPercentsField renders
\* +100.0% when b is zero, whatever v is, and otherwise (v - b) / abs(b)
\* as a percentage with one decimal and a leading '+' when it is not
\* negative; b = 0, v = 50 gives +100.0%, b = 100, v = 50 gives -50.0%
\* and b = 100, v = 150 gives +50.0%.  The same holds for the week.
C17_PercentChange ==
  (calc.fn = "formatPercentsField" /\ calc.result # <<>>) =>
    LET v == calc.args.dayValue
        b == calc.args.prevDayValue
        day == calc.result[1].day
    IN  /\ RendersChange(day, v, b)
        /\ RendersChange(calc.result[1].week, v, calc.args.prevWeekValue)
        /\ (b = 0 /\ v = 50) => day = Rendered(TRUE, 100, 0)
        /\ (b = 100 /\ v = 50) => day = Rendered(FALSE, 50, 0)
        /\ (b = 100 /\ v = 150) => day = Rendered(TRUE, 50, 0)

\* A negative value over a zero baseline is +100.0%; over the week's
\* baseline of 100 the value has fallen by 103.0%.
C17_Witness ==
  /\ calc.fn = "formatPercentsField"
  /\ calc.result # <<>>
  /\ calc.args.dayValue = -3
  /\ calc.args.prevDayValue = 0
  /\ calc.args.prevWeekValue = 100
  /\ calc.result[1].day = Rendered(TRUE, 100, 0)
  /\ calc.result[1].week = Rendered(FALSE, 103, 0)


====
